---- MODULE Spec2Model ----
(***************************************************************************)
(* Gapbuffer (Ttibsi/gapbuffer): a gap buffer over one heap allocation,    *)
(* delimited by four raw pointers.  The model is a flat byte-addressed     *)
(* heap: a pointer is an integer address, pointer arithmetic is integer    *)
(* arithmetic, and a store through a pointer that lies outside the block   *)
(* it was derived from lands wherever that address is.  An access outside  *)
(* the arena is a fault ("segv").  The allocator may return any free,      *)
(* aligned block; it does not initialise it.                               *)
(***************************************************************************)
EXTENDS Integers, Sequences, FiniteSets, TLC

\* ---------------------------------------------------------------- bounds
ArenaSize == 40        \* addresses 1..ArenaSize are mapped memory
AllocAlign == 16       \* the allocator returns bases 1, 1+AllocAlign, ...
MaxStrLen == 2         \* longest text given to a constructor or to insert
MaxInitCap == 2        \* largest explicit capacity given to Gapbuffer(n)
MaxReserve == 4        \* largest new_cap given to reserve()
MaxErase == 2          \* largest count given to erase()
MaxSteps == 2          \* operations per behaviour after construction
MaxOwnSteps == 3       \* the same once a second buffer exists
MaxIndex == 3          \* largest index or position given to an accessor
MaxCount == 2          \* largest occurrence count given to find()

\* ------------------------------------------------------ program constants
DefaultCapacity == 32  \* Gapbuffer(): allocate(32)
GapPad == 8            \* content-seeded constructors: gapEnd = gapStart + 8
\* size_type is std::size_t: unsigned, differences wrap.  The modulus is
\* scaled down (the arena is far smaller than it, as memory is far smaller
\* than 2^64), so a negative difference still reads as a huge count.
SizeModulus == 65536

nullptr == 0
Obj == {"a", "b"}
Char == {10, 97}             \* '\n' and 'a'
Byte == Char \cup {0}        \* 0 is a value-initialised char
Addr == 1..ArenaSize

VARIABLES
    mem,          \* [Addr -> Byte]: the bytes of the arena
    heap,         \* set of [base, len, frees]: every block ever allocated
    bufferStart,  \* [Obj -> Int]
    gapStart,     \* [Obj -> Int] one past the last value of the left half
    gapEnd,       \* [Obj -> Int] the first value of the right half
    bufferEnd,    \* [Obj -> Int] one past the last value of the right half
    life,         \* [Obj -> {"unborn", "live", "destroyed"}]
    last,         \* the operation that produced this state, with the state before it
    prev,         \* the operation before that, with its object as it was before it
    steps         \* operations performed since construction

vars == <<mem, heap, bufferStart, gapStart, gapEnd, bufferEnd, life, last, prev, steps>>

\* ------------------------------------------------------------- sequences
RECURSIVE SeqsUpTo(_)
SeqsUpTo(n) ==
    IF n = 0 THEN {<<>>}
    ELSE LET shorter == SeqsUpTo(n - 1)
         IN shorter \cup {Append(s, c) : s \in {t \in shorter : Len(t) = n - 1}, c \in Char}

Texts == SeqsUpTo(MaxStrLen)

Reverse(s) == [i \in 1..Len(s) |-> s[Len(s) + 1 - i]]

\* ------------------------------------------------------------ the object
\* The four data members of one Gapbuffer.
Members(o) == [bufferStart |-> bufferStart[o], gapStart |-> gapStart[o],
               gapEnd |-> gapEnd[o], bufferEnd |-> bufferEnd[o]]

NullMembers == [bufferStart |-> nullptr, gapStart |-> nullptr,
                gapEnd |-> nullptr, bufferEnd |-> nullptr]

size_type(x) == x % SizeModulus

capacity(g) == size_type(g.bufferEnd - g.bufferStart)

\* size() without the gap taken off
size_of_block(g) == size_type(g.bufferEnd - g.bufferStart)

size(g) == size_type(g.bufferEnd - g.bufferStart - (g.gapEnd - g.gapStart))

gap_size(g) == size_type(g.gapEnd - g.gapStart)

empty(g) == g.bufferStart = g.gapStart

\* ------------------------------------------------------------ the memory
InArena(p) == p \in Addr

\* the n slots from p on are all mapped
RangeInArena(p, n) == n = 0 \/ (n <= ArenaSize /\ p >= 1 /\ p + n - 1 <= ArenaSize)

\* the n bytes read from p on
ReadN(m, p, n) == [i \in 1..n |-> m[p + i - 1]]

\* the n slots from p on set to zero
ZeroN(m, p, n) == [x \in Addr |-> IF x >= p /\ x < p + n THEN 0 ELSE m[x]]

\* n bytes copied from src to dst
CopyN(m, src, n, dst) ==
    [x \in Addr |-> IF x >= dst /\ x < dst + n THEN m[src + (x - dst)] ELSE m[x]]

\* the bytes of a sequence stored from dst on
StoreSeq(m, s, dst) ==
    [x \in Addr |-> IF x >= dst /\ x < dst + Len(s) THEN s[x - dst + 1] ELSE m[x]]

\* ---------------------------------------------------------- the allocator
\* operator new(0) returns a unique non-null pointer: an empty block still
\* occupies a slot of its own.
Footprint(n) == IF n = 0 THEN 1 ELSE n

Live(h) == {b \in h : b.frees = 0}

Overlap(p, n, b) == p < b.base + Footprint(b.len) /\ b.base < p + Footprint(n)

\* the bases allocate(n) may return
allocate(h, n) ==
    {p \in Addr : /\ (p - 1) % AllocAlign = 0
                  /\ p + Footprint(n) - 1 <= ArenaSize
                  /\ \A b \in Live(h) : ~Overlap(p, n, b)}

NewBlock(p, n) == [base |-> p, len |-> n, frees |-> 0]

\* deallocate(p, n): operator delete(p).  Releasing a live block marks it
\* freed; releasing a block again counts the second release; nullptr is a
\* no-op; a pointer that is no block's base leaves the heap as it is.
deallocate(h, p) ==
    IF p = nullptr THEN h
    ELSE IF \E b \in Live(h) : b.base = p
         THEN {IF b.frees = 0 /\ b.base = p THEN [b EXCEPT !.frees = 1] ELSE b : b \in h}
         ELSE {IF b.base = p THEN [b EXCEPT !.frees = 2] ELSE b : b \in h}

\* the release is of a block that is not live (double or invalid free)
BadFree(h, p) == p # nullptr /\ ~\E b \in Live(h) : b.base = p

\* ------------------------------------------------------------- observers
\* to_str(): append(bufferStart, gapStart - bufferStart) then
\* append(gapEnd, bufferEnd - gapEnd); both counts convert to size_type.  A
\* count that cannot be read (wrapped, or running out of the arena) ends the
\* call abnormally: ok is FALSE.
to_str(g, m) ==
    LET left == size_type(g.gapStart - g.bufferStart)
        right == size_type(g.bufferEnd - g.gapEnd)
    IN IF RangeInArena(g.bufferStart, left) /\ RangeInArena(g.gapEnd, right)
       THEN [ok |-> TRUE, str |-> ReadN(m, g.bufferStart, left) \o ReadN(m, g.gapEnd, right)]
       ELSE [ok |-> FALSE, str |-> <<>>]

\* an outcome of one operation on one object
Outcome(g, m, h, res, r) == [g |-> g, mem |-> m, heap |-> h, outcome |-> res, ret |-> r]

Segv(g, m, h) == Outcome(g, m, h, "segv", <<>>)

\* ---------------------------------------------------------- constructors
\* Gapbuffer(length) whose gap is left empty at the start of the block
Gapbuffer_length_no_gap(m, h, length) ==
    {Outcome([bufferStart |-> p, gapStart |-> p, gapEnd |-> p, bufferEnd |-> p + length],
             ZeroN(m, p, length), h \cup {NewBlock(p, length)}, "ok", <<>>)
        : p \in allocate(h, length)}

\* Gapbuffer(const size_type length): the block is value-initialised and the
\* gap spans all of it.
Gapbuffer_length(m, h, length) ==
    {Outcome([bufferStart |-> p, gapStart |-> p, gapEnd |-> p + length, bufferEnd |-> p + length],
             ZeroN(m, p, length), h \cup {NewBlock(p, length)}, "ok", <<>>)
        : p \in allocate(h, length)}

\* Gapbuffer()
Gapbuffer(m, h) == Gapbuffer_length(m, h, DefaultCapacity)

\* Gapbuffer(std::string_view) that allocates and pads by one slot less
Gapbuffer_string_view_short(m, h, str) ==
    {Outcome([bufferStart |-> p, gapStart |-> p + Len(str),
              gapEnd |-> p + Len(str) + GapPad - 1, bufferEnd |-> p + Len(str) + GapPad - 1],
             StoreSeq(m, str, p), h \cup {NewBlock(p, Len(str) + GapPad - 1)}, "ok", <<>>)
        : p \in allocate(h, Len(str) + GapPad - 1)}

\* Gapbuffer(std::string_view str): str.size() + 8 slots, the gap slots are
\* left as the allocator returned them.
Gapbuffer_string_view(m, h, str) ==
    {Outcome([bufferStart |-> p, gapStart |-> p + Len(str),
              gapEnd |-> p + Len(str) + GapPad, bufferEnd |-> p + Len(str) + GapPad],
             StoreSeq(m, str, p), h \cup {NewBlock(p, Len(str) + GapPad)}, "ok", <<>>)
        : p \in allocate(h, Len(str) + GapPad)}

\* Gapbuffer(InputIt begin, InputIt end) binds a non-const reference to the
\* temporary pair and cannot be instantiated; it has no counterpart here.

\* Gapbuffer(std::initializer_list<char> lst): lst.size() slots are
\* allocated, yet gapEnd and bufferEnd are set 8 past the content.
Gapbuffer_initializer_list(m, h, lst) ==
    {Outcome([bufferStart |-> p, gapStart |-> p + Len(lst),
              gapEnd |-> p + Len(lst) + GapPad, bufferEnd |-> p + Len(lst) + GapPad],
             StoreSeq(m, lst, p), h \cup {NewBlock(p, Len(lst))}, "ok", <<>>)
        : p \in allocate(h, Len(lst))}

\* -------------------------------------------------------------- capacity
\* The body of reserve() once new_mem has been allocated.
\* uninitialized_value_construct_n is given bufferStart (the old block), so
\* new_end is bufferStart + new_cap; both segments are moved after that
\* fill; the old block is not released.  A negative left count is undefined
\* in uninitialized_move_n: the copy faults, or copies nothing and returns
\* either the destination or the destination advanced by the count.
reserve_at(g, m, h, new_cap, new_mem) ==
    LET h1 == h \cup {NewBlock(new_mem, new_cap)}
        new_end == g.bufferStart + new_cap
        left == g.gapStart - g.bufferStart
        rhs_size == size_type(g.bufferEnd - g.gapEnd)
        m1 == ZeroN(m, g.bufferStart, new_cap)
        m2 == IF left > 0 THEN CopyN(m1, g.bufferStart, left, new_mem) ELSE m1
        m3 == CopyN(m2, g.gapEnd, rhs_size, new_end - rhs_size)
        done(lhs_buf) ==
            IF RangeInArena(g.gapEnd, rhs_size) /\ RangeInArena(new_end - rhs_size, rhs_size)
            THEN Outcome([bufferStart |-> new_mem, gapStart |-> lhs_buf,
                          gapEnd |-> new_end - rhs_size, bufferEnd |-> new_end],
                         m3, h1, "ok", <<>>)
            ELSE Segv(g, m1, h1)
    IN IF ~RangeInArena(g.bufferStart, new_cap) THEN {Segv(g, m, h1)}
       ELSE IF left < 0 THEN {Segv(g, m1, h1), done(new_mem), done(new_mem + left)}
       ELSE IF ~(RangeInArena(g.bufferStart, left) /\ RangeInArena(new_mem, left))
            THEN {Segv(g, m1, h1)}
       ELSE {done(new_mem + left)}

\* reserve(size_type new_cap).  allocate() of a count no memory can hold
\* throws std::bad_alloc.
reserve(g, m, h, new_cap) ==
    IF ~(new_cap > capacity(g)) THEN {Outcome(g, m, h, "ok", <<>>)}
    ELSE IF new_cap > ArenaSize THEN {Outcome(g, m, h, "bad_alloc", <<>>)}
    ELSE UNION {reserve_at(g, m, h, new_cap, p) : p \in allocate(h, new_cap)}

\* -------------------------------------------------------------- modifiers
\* clear(): destroy_n is trivial for char.
\* clear() that resets gapStart and leaves gapEnd where it is
clear_left_only(g, m, h) ==
    {Outcome([g EXCEPT !.gapStart = g.bufferStart], m, h, "ok", <<>>)}

clear(g, m, h) ==
    {Outcome([g EXCEPT !.gapStart = g.bufferStart, !.gapEnd = g.bufferEnd], m, h, "ok", <<>>)}

\* push_back(const char& value)
push_back(g, m, h, value) ==
    IF ~InArena(g.gapStart) THEN {Segv(g, m, h)}
    ELSE LET m1 == [m EXCEPT ![g.gapStart] = value]
             g1 == [g EXCEPT !.gapStart = g.gapStart + 1]
         IN IF g1.gapStart = g1.gapEnd
            THEN reserve(g1, m1, h, size_type(capacity(g1) * 2))
            ELSE {Outcome(g1, m1, h, "ok", <<>>)}

\* pop_back()
pop_back(g, m, h) ==
    IF g.gapStart = g.bufferStart THEN {Outcome(g, m, h, "out_of_range", <<>>)}
    ELSE IF ~InArena(g.gapStart - 1) THEN {Segv(g, m, h)}
    ELSE {Outcome([g EXCEPT !.gapStart = g.gapStart - 1], m, h, "ok", <<m[g.gapStart - 1]>>)}

\* insert(const std::string_view value): push_back of each element; an
\* exception or a fault ends the loop.
RECURSIVE insert(_, _, _, _)
insert(g, m, h, value) ==
    IF value = <<>> THEN {Outcome(g, m, h, "ok", <<>>)}
    ELSE UNION {IF r.outcome = "ok" THEN insert(r.g, r.mem, r.heap, Tail(value)) ELSE {r}
                    : r \in push_back(g, m, h, Head(value))}

\* erase(size_type count): ret collects the popped elements; the exception
\* of pop_back leaves through erase and ret is lost.
RECURSIVE erase_loop(_, _, _, _, _)
erase_loop(g, m, h, count, ret) ==
    IF count = 0 THEN {Outcome(g, m, h, "ok", ret)}
    ELSE UNION {IF r.outcome = "ok"
                THEN erase_loop(r.g, r.mem, r.heap, count - 1, ret \o r.ret)
                ELSE {r}
                    : r \in pop_back(g, m, h)}

\* erase() returning the removed elements in buffer order
erase_in_order(g, m, h, count) ==
    {[r EXCEPT !.ret = Reverse(r.ret)] : r \in erase_loop(g, m, h, count, <<>>)}

erase(g, m, h, count) == erase_loop(g, m, h, count, <<>>)

\* advance()
advance(g, m, h) ==
    LET has_value == g.gapEnd < g.bufferEnd
    IN IF has_value /\ ~(InArena(g.gapEnd) /\ InArena(g.gapStart)) THEN {Segv(g, m, h)}
       ELSE {Outcome([g EXCEPT !.gapEnd = g.gapEnd + 1, !.gapStart = g.gapStart + 1],
                     IF has_value THEN [m EXCEPT ![g.gapStart] = m[g.gapEnd]] ELSE m,
                     h, "ok", <<>>)}

\* retreat()
retreat(g, m, h) ==
    LET gs == g.gapStart - 1
        has_value == gs > g.bufferStart
    IN IF has_value /\ ~(InArena(gs) /\ InArena(g.gapEnd - 1)) THEN {Segv(g, m, h)}
       ELSE {Outcome([g EXCEPT !.gapStart = gs, !.gapEnd = g.gapEnd - 1],
                     IF has_value THEN [m EXCEPT ![g.gapEnd - 1] = m[gs]] ELSE m,
                     h, "ok", <<>>)}

\* ------------------------------------------------- copy, move, destruction
\* an outcome of an operation on one object (g) that takes another (og)
Outcome2(g, og, m, h, res) == [g |-> g, og |-> og, mem |-> m, heap |-> h, outcome |-> res, ret |-> <<>>]

\* Gapbuffer(const Gapbuffer& other), and the body of copy assignment:
\* gapStart takes the result of uninitialized_copy_n.  g is the object as it
\* was: a constructor that throws leaves no object, an assignment that throws
\* leaves *this untouched.
copy_from(g, other, m, h) ==
    LET cap == capacity(other)
    IN IF cap > ArenaSize THEN {Outcome2(g, other, m, h, "bad_alloc")}
       ELSE {IF RangeInArena(other.bufferStart, cap)
             THEN Outcome2([bufferStart |-> p,
                            gapStart |-> p + cap,
                            gapEnd |-> p + (other.gapEnd - other.bufferStart),
                            bufferEnd |-> p + cap],
                           other, CopyN(m, other.bufferStart, cap, p),
                           h \cup {NewBlock(p, cap)}, "ok")
             ELSE Outcome2(g, other, m, h \cup {NewBlock(p, cap)}, "segv")
                : p \in allocate(h, cap)}

\* releasing a block that is not live is undefined: the allocator aborts the
\* process or carries on
release(g, og, m, h, p) ==
    IF BadFree(h, p)
    THEN {Outcome2(g, og, m, deallocate(h, p), "ok"), Outcome2(g, og, m, deallocate(h, p), "abort")}
    ELSE {Outcome2(g, og, m, deallocate(h, p), "ok")}

\* Gapbuffer(Gapbuffer&& other): the members are copied from other, then
\* other.bufferStart is deallocated; other keeps its pointers.
Gapbuffer_move(other, m, h) == release(other, other, m, h, other.bufferStart)

\* operator=(Gapbuffer&& other), this != &other
move_assign(g, other, m, h) == release(other, NullMembers, m, h, g.bufferStart)

\* ~Gapbuffer()
destructor(g, m, h) == release(g, g, m, h, g.bufferStart)

\* the lengths of the two segments, as signed pointer differences
left_len(g) == g.gapStart - g.bufferStart

right_len(g) == g.bufferEnd - g.gapEnd

\* The layout the members' comments describe: the four pointers in order,
\* inside the live block that bufferStart is the base of.
WellFormed(g, h) ==
    /\ g.bufferStart <= g.gapStart /\ g.gapStart <= g.gapEnd /\ g.gapEnd <= g.bufferEnd
    /\ \E b \in Live(h) : b.base = g.bufferStart /\ g.bufferEnd <= b.base + b.len

\* ---------------------------------------------------------------- history
Snapshot ==
    [o \in Obj |-> [g |-> Members(o), str |-> to_str(Members(o), mem), life |-> life[o],
                    wf |-> WellFormed(Members(o), heap)]]

Record(op, o, argc, args, r, src) ==
    [op |-> op, obj |-> o, argc |-> argc, args |-> args, src |-> src,
     outcome |-> r.outcome, ret |-> r.ret, pre |-> Snapshot]

NoOp == [op |-> "none", obj |-> "a", argc |-> 0, args |-> <<>>, src |-> "a",
         outcome |-> "ok", ret |-> <<>>,
         pre |-> [o \in Obj |-> [g |-> NullMembers, str |-> [ok |-> TRUE, str |-> <<>>],
                                 life |-> "unborn", wf |-> FALSE]]]

\* what is kept of an operation once another has followed it
Earlier(l) ==
    [op |-> l.op, obj |-> l.obj, argc |-> l.argc, args |-> l.args, outcome |-> l.outcome,
     g |-> l.pre[l.obj].g, str |-> l.pre[l.obj].str, wf |-> l.pre[l.obj].wf]

\* The const member functions.  They leave the object as it is, so what may
\* follow one is what may follow without it: a behaviour ends with the first.
Observers == {"at", "subscript", "front", "back", "for_each", "reverse_each",
              "const_reverse_each", "line", "find", "line_count", "equals", "print"}

\* the process is still running and may take another step
Running ==
    /\ last.outcome \notin {"segv", "abort", "hang"}
    /\ last.op \notin Observers
    /\ steps < (IF life["b"] = "unborn" THEN MaxSteps ELSE MaxOwnSteps)

SetMembers(o, g) ==
    /\ bufferStart' = [bufferStart EXCEPT ![o] = g.bufferStart]
    /\ gapStart' = [gapStart EXCEPT ![o] = g.gapStart]
    /\ gapEnd' = [gapEnd EXCEPT ![o] = g.gapEnd]
    /\ bufferEnd' = [bufferEnd EXCEPT ![o] = g.bufferEnd]

SetMembers2(o, g, src, og) ==
    /\ bufferStart' = [bufferStart EXCEPT ![o] = g.bufferStart, ![src] = og.bufferStart]
    /\ gapStart' = [gapStart EXCEPT ![o] = g.gapStart, ![src] = og.gapStart]
    /\ gapEnd' = [gapEnd EXCEPT ![o] = g.gapEnd, ![src] = og.gapEnd]
    /\ bufferEnd' = [bufferEnd EXCEPT ![o] = g.bufferEnd, ![src] = og.bufferEnd]

\* a member function of o returned (or threw) with outcome r
Do(o, op, argc, args, r) ==
    /\ SetMembers(o, r.g)
    /\ mem' = r.mem
    /\ heap' = r.heap
    /\ last' = Record(op, o, argc, args, r, o)
    /\ prev' = Earlier(last)
    /\ steps' = steps + 1

\* ------------------------------------------------------------------- Init
\* The arena holds whatever it held before the program ran; object "a" has
\* been constructed by one of the constructors, object "b" not yet.
Constructed(op, argc, args, r) ==
    /\ mem = r.mem
    /\ heap = r.heap
    /\ bufferStart = [o \in Obj |-> IF o = "a" THEN r.g.bufferStart ELSE nullptr]
    /\ gapStart = [o \in Obj |-> IF o = "a" THEN r.g.gapStart ELSE nullptr]
    /\ gapEnd = [o \in Obj |-> IF o = "a" THEN r.g.gapEnd ELSE nullptr]
    /\ bufferEnd = [o \in Obj |-> IF o = "a" THEN r.g.bufferEnd ELSE nullptr]
    /\ life = [o \in Obj |-> IF o = "a" THEN "live" ELSE "unborn"]
    /\ last = [NoOp EXCEPT !.op = op, !.argc = argc, !.args = args]
    /\ prev = Earlier(NoOp)
    /\ steps = 0

Init ==
    \E junk \in Byte :
        LET m0 == [x \in Addr |-> junk]
        IN \/ \E r \in Gapbuffer(m0, {}) : Constructed("Gapbuffer", 0, <<>>, r)
           \/ \E length \in 0..MaxInitCap : \E r \in Gapbuffer_length(m0, {}, length) :
                 Constructed("Gapbuffer_length", length, <<>>, r)
           \/ \E str \in Texts : \E r \in Gapbuffer_string_view(m0, {}, str) :
                 Constructed("Gapbuffer_string_view", 0, str, r)
           \/ \E lst \in Texts : \E r \in Gapbuffer_initializer_list(m0, {}, lst) :
                 Constructed("Gapbuffer_initializer_list", 0, lst, r)

\* ---------------------------------------------------------------- actions
Usable(o) == Running /\ life[o] = "live"

PushBack(o) ==
    /\ Usable(o)
    /\ \E value \in Char : \E r \in push_back(Members(o), mem, heap, value) :
          Do(o, "push_back", value, <<>>, r)
    /\ UNCHANGED life

PopBack(o) ==
    /\ Usable(o)
    /\ \E r \in pop_back(Members(o), mem, heap) : Do(o, "pop_back", 0, <<>>, r)
    /\ UNCHANGED life

Insert(o) ==
    /\ Usable(o)
    /\ \E value \in Texts : \E r \in insert(Members(o), mem, heap, value) :
          Do(o, "insert", 0, value, r)
    /\ UNCHANGED life

Erase(o) ==
    /\ Usable(o)
    /\ \E count \in 0..MaxErase : \E r \in erase(Members(o), mem, heap, count) :
          Do(o, "erase", count, <<>>, r)
    /\ UNCHANGED life

Clear(o) ==
    /\ Usable(o)
    /\ \E r \in clear(Members(o), mem, heap) : Do(o, "clear", 0, <<>>, r)
    /\ UNCHANGED life

Advance(o) ==
    /\ Usable(o)
    /\ \E r \in advance(Members(o), mem, heap) : Do(o, "advance", 0, <<>>, r)
    /\ UNCHANGED life

Retreat(o) ==
    /\ Usable(o)
    /\ \E r \in retreat(Members(o), mem, heap) : Do(o, "retreat", 0, <<>>, r)
    /\ UNCHANGED life

Reserve(o) ==
    /\ Usable(o)
    /\ \E new_cap \in 0..MaxReserve : \E r \in reserve(Members(o), mem, heap, new_cap) :
          Do(o, "reserve", new_cap, <<>>, r)
    /\ UNCHANGED life

\* a member function of o that takes src returned (or threw) with outcome r
Do2(o, src, op, r) ==
    /\ SetMembers2(o, r.g, src, r.og)
    /\ mem' = r.mem
    /\ heap' = r.heap
    /\ last' = Record(op, o, 0, <<>>, r, src)
    /\ prev' = Earlier(last)
    /\ steps' = steps + 1

\* Gapbuffer o(src);
CopyConstruct(o, src) ==
    /\ Running /\ life[o] = "unborn" /\ life[src] = "live"
    /\ \E r \in copy_from(NullMembers, Members(src), mem, heap) :
          /\ Do2(o, src, "copy_construct", r)
          /\ life' = [life EXCEPT ![o] = IF r.outcome = "ok" THEN "live" ELSE @]

\* Gapbuffer o(std::move(src));
MoveConstruct(o, src) ==
    /\ Running /\ life[o] = "unborn" /\ life[src] = "live"
    /\ \E r \in Gapbuffer_move(Members(src), mem, heap) :
          /\ Do2(o, src, "move_construct", r)
          /\ life' = [life EXCEPT ![o] = "live"]

\* o = src;  (this != &other guards the body)
CopyAssign(o, src) ==
    /\ Running /\ life[o] = "live" /\ life[src] = "live"
    /\ \E r \in (IF o = src THEN {Outcome2(Members(o), Members(o), mem, heap, "ok")}
                 ELSE copy_from(Members(o), Members(src), mem, heap)) :
          Do2(o, src, "copy_assign", r)
    /\ UNCHANGED life

\* o = std::move(src);  (this != &other guards the body)
MoveAssign(o, src) ==
    /\ Running /\ life[o] = "live" /\ life[src] = "live"
    /\ \E r \in (IF o = src THEN {Outcome2(Members(o), Members(o), mem, heap, "ok")}
                 ELSE move_assign(Members(o), Members(src), mem, heap)) :
          Do2(o, src, "move_assign", r)
    /\ UNCHANGED life

\* o goes out of scope
Destroy(o) ==
    /\ Running /\ life[o] = "live"
    /\ \E r \in destructor(Members(o), mem, heap) : Do2(o, o, "destroy", r)
    /\ life' = [life EXCEPT ![o] = "destroyed"]

\* One buffer and its public operations.
Next ==
    \/ PushBack("a")
    \/ PopBack("a")
    \/ Insert("a")
    \/ Erase("a")
    \/ Clear("a")
    \/ Advance("a")
    \/ Retreat("a")
    \/ Reserve("a")

Spec == Init /\ [][Next]_vars

\* Two buffers: the second is made from the first, they are assigned to one
\* another, edited and destroyed.
NextOwn ==
    \/ CopyConstruct("b", "a")
    \/ MoveConstruct("b", "a")
    \/ \E o \in Obj, src \in Obj : CopyAssign(o, src)
    \/ \E o \in Obj, src \in Obj : MoveAssign(o, src)
    \/ \E o \in Obj : Destroy(o)
    \/ \E o \in Obj : PushBack(o)
    \/ \E o \in Obj : PopBack(o)
    \/ \E o \in Obj : Retreat(o)

SpecOwn == Init /\ [][NextOwn]_vars

\* --------------------------------------------------------- element access
\* the char a pointer denotes, or a fault
deref(g, m, h, p) == IF InArena(p) THEN Outcome(g, m, h, "ok", <<m[p]>>) ELSE Segv(g, m, h)

\* operator[](loc) translating every index as one of the right segment
subscript_past_gap(g, m, h, loc) ==
    {deref(g, m, h, g.gapEnd + (loc - (g.gapStart - g.bufferStart)))}

\* operator[](loc): below the left length the slot is bufferStart + loc,
\* otherwise gapEnd + (loc - left length); no bounds check.
subscript(g, m, h, loc) ==
    {deref(g, m, h, IF loc < size_type(g.gapStart - g.bufferStart)
                    THEN g.bufferStart + loc
                    ELSE g.gapEnd + (loc - (g.gapStart - g.bufferStart)))}

\* at(loc): throws when loc >= size(), then translates as operator[] does
at(g, m, h, loc) ==
    IF loc >= size(g) THEN {Outcome(g, m, h, "out_of_range", <<>>)}
    ELSE subscript(g, m, h, loc)

\* front()
front(g, m, h) ==
    IF g.gapStart = g.bufferStart /\ g.gapEnd = g.bufferEnd
    THEN {Outcome(g, m, h, "out_of_range", <<>>)}
    ELSE IF g.bufferStart = g.gapStart THEN {deref(g, m, h, g.gapEnd)}
    ELSE {deref(g, m, h, g.bufferStart)}

\* back()
back(g, m, h) ==
    IF g.gapStart = g.bufferStart /\ g.gapEnd = g.bufferEnd
    THEN {Outcome(g, m, h, "out_of_range", <<>>)}
    ELSE IF g.bufferEnd = g.gapEnd THEN {deref(g, m, h, g.gapStart - 1)}
    ELSE {deref(g, m, h, g.bufferEnd - 1)}

At(o) ==
    /\ Usable(o)
    /\ \E loc \in 0..MaxIndex : \E r \in at(Members(o), mem, heap, loc) :
          Do(o, "at", loc, <<>>, r)
    /\ UNCHANGED life

Subscript(o) ==
    /\ Usable(o)
    /\ \E loc \in 0..MaxIndex : \E r \in subscript(Members(o), mem, heap, loc) :
          Do(o, "subscript", loc, <<>>, r)
    /\ UNCHANGED life

Front(o) ==
    /\ Usable(o)
    /\ \E r \in front(Members(o), mem, heap) : Do(o, "front", 0, <<>>, r)
    /\ UNCHANGED life

Back(o) ==
    /\ Usable(o)
    /\ \E r \in back(Members(o), mem, heap) : Do(o, "back", 0, <<>>, r)
    /\ UNCHANGED life

\* -------------------------------------------------------------- iterators
\* An iterator is the pointer it holds.  begin()/cbegin() and end()/cend():
begin(g) == g.bufferStart

end(g) == g.bufferEnd

\* rbegin()/rend(): the pointer of the iterator the reverse iterator wraps;
\* a reverse iterator denotes the element before that pointer.
rbegin(g) == IF g.gapEnd = g.bufferEnd THEN g.gapStart ELSE g.bufferEnd

rend(g) == IF g.gapStart = g.bufferStart THEN g.gapEnd ELSE g.bufferStart

\* crbegin() wraps cbegin()
crbegin(g) == begin(g)

crend(g) == IF g.gapStart = g.bufferStart THEN g.gapEnd ELSE g.bufferStart

\* operator++(), operator--(), operator+=(n), operator-=(n): the body is
\* empty, and control flowing off the end of a function that returns a value
\* is undefined.  The call traps, or returns having left the iterator as it
\* was (ret holds the pointer after the call).
operator_inc(g, m, h, ptr) == {Segv(g, m, h), Outcome(g, m, h, "ok", <<ptr>>)}

operator_dec(g, m, h, ptr) == {Segv(g, m, h), Outcome(g, m, h, "ok", <<ptr>>)}

\* operator-(const IteratorTemplate&): the body is empty; the difference
\* returned, if the call returns, is whatever the register held.
operator_diff(g, m, h) ==
    {Segv(g, m, h)} \cup {Outcome(g, m, h, "ok", <<d>>) : d \in -1..MaxIndex}

\* the loop  for (it = first; it != last; step(it)) { ... }  once its first
\* round has been entered and has not returned: the step is one of the
\* undefined calls, so the round traps, or is repeated for ever with the
\* same iterator ("hang"), or - the compiler taking a path that reaches an
\* undefined call for one that is never taken - the loop is left as if
\* first had been last (skipped).
loop_step(g, m, h, ptr, step, seen, skipped) ==
    {skipped} \cup {IF r.outcome = "ok" /\ r.ret = <<ptr>>
                    THEN Outcome(g, m, h, "hang", seen) ELSE r : r \in step}

\* for (auto it = begin(); it != end(); ++it) use(*it);  ret is what was used
for_each(g, m, h) ==
    IF begin(g) = end(g) THEN {Outcome(g, m, h, "ok", <<>>)}
    ELSE IF ~InArena(begin(g)) THEN {Segv(g, m, h)}
    ELSE loop_step(g, m, h, begin(g), operator_inc(g, m, h, begin(g)),
                   <<m[begin(g)]>>, Outcome(g, m, h, "ok", <<>>))

\* for (auto it = first; it != last; ++it) use(*it);  over reverse
\* iterators: *it is *--tmp on a copy of the wrapped iterator and ++it is --
\* on the wrapped iterator, both operator--().
reverse_each(g, m, h, first, last_) ==
    IF first = last_ THEN {Outcome(g, m, h, "ok", <<>>)}
    ELSE loop_step(g, m, h, first, operator_dec(g, m, h, first),
                   <<>>, Outcome(g, m, h, "ok", <<>>))

\* line(pos): the two range checks, then std::next(cbegin(), pos), which
\* is operator+=() or operator++() on a copy of cbegin().
line(g, m, h, pos) ==
    IF pos > size(g) THEN {Outcome(g, m, h, "out_of_range", <<>>)}
    ELSE IF empty(g) THEN {Outcome(g, m, h, "runtime_error", <<>>)}
    ELSE loop_step(g, m, h, begin(g), operator_inc(g, m, h, begin(g)),
                   <<>>, Outcome(g, m, h, "runtime_error", <<>>))

\* find(c, count)
find(g, m, h, c, count) ==
    IF count = 0 THEN {Outcome(g, m, h, "ok", <<0>>)}
    ELSE IF begin(g) = end(g) THEN {Outcome(g, m, h, "ok", <<-1>>)}
    ELSE IF ~InArena(begin(g)) THEN {Segv(g, m, h)}
    ELSE IF m[begin(g)] = c /\ count = 1 THEN operator_diff(g, m, h)
    ELSE loop_step(g, m, h, begin(g), operator_inc(g, m, h, begin(g)),
                   <<>>, Outcome(g, m, h, "ok", <<-1>>))

\* line_count(): std::count(begin(), end(), '\n') is the loop above; back()
\* adds one unless it is '\n'.  The function is noexcept.
line_count(g, m, h) ==
    IF g.bufferStart = g.gapStart /\ g.bufferEnd = g.gapEnd
    THEN {Outcome(g, m, h, "ok", <<0>>)}
    ELSE LET counted(newlines) ==
                 {IF b.outcome = "ok"
                  THEN Outcome(g, m, h, "ok", <<IF b.ret # <<10>> THEN newlines + 1 ELSE newlines>>)
                  ELSE IF b.outcome = "segv" THEN b
                  ELSE Outcome(g, m, h, "abort", <<>>) : b \in back(g, m, h)}
         IN IF begin(g) = end(g) THEN counted(0)
            ELSE IF ~InArena(begin(g)) THEN {Segv(g, m, h)}
            ELSE UNION {loop_step(g, m, h, begin(g), operator_inc(g, m, h, begin(g)),
                                  <<>>, skipped) : skipped \in counted(0)}

ForEach(o) ==
    /\ Usable(o)
    /\ \E r \in for_each(Members(o), mem, heap) :
          Do(o, "for_each", 0, <<begin(Members(o)), end(Members(o))>>, r)
    /\ UNCHANGED life

ReverseEach(o) ==
    /\ Usable(o)
    /\ \E r \in reverse_each(Members(o), mem, heap, rbegin(Members(o)), rend(Members(o))) :
          Do(o, "reverse_each", 0, <<rbegin(Members(o)), rend(Members(o))>>, r)
    /\ UNCHANGED life

ConstReverseEach(o) ==
    /\ Usable(o)
    /\ \E r \in reverse_each(Members(o), mem, heap, crbegin(Members(o)), crend(Members(o))) :
          Do(o, "const_reverse_each", 0, <<crbegin(Members(o)), crend(Members(o))>>, r)
    /\ UNCHANGED life

Line(o) ==
    /\ Usable(o)
    /\ \E pos \in 0..MaxIndex : \E r \in line(Members(o), mem, heap, pos) :
          Do(o, "line", pos, <<>>, r)
    /\ UNCHANGED life

Find(o) ==
    /\ Usable(o)
    /\ \E c \in Char, count \in 0..MaxCount : \E r \in find(Members(o), mem, heap, c, count) :
          Do(o, "find", count, <<c>>, r)
    /\ UNCHANGED life

LineCount(o) ==
    /\ Usable(o)
    /\ \E r \in line_count(Members(o), mem, heap) : Do(o, "line_count", 0, <<>>, r)
    /\ UNCHANGED life

\* operator<<(os, buf): "[", then for every p in bufferStart..bufferEnd-1
\* a blank when gapStart <= p <= gapEnd and *p otherwise, then "]".  ret is
\* the chars written, as their codes ('[' 91, ' ' 32, ']' 93).
operator_shl(g, m, h) ==
    LET slots == {p \in g.bufferStart..(g.bufferEnd - 1) : ~(p >= g.gapStart /\ p <= g.gapEnd)}
        shown(p) == IF p >= g.gapStart /\ p <= g.gapEnd THEN 32 ELSE m[p]
    IN IF \E p \in slots : ~InArena(p) THEN {Segv(g, m, h)}
       ELSE {Outcome(g, m, h, "ok",
                     <<91>> \o [i \in 1..(g.bufferEnd - g.bufferStart) |->
                                  shown(g.bufferStart + i - 1)] \o <<93>>)}

Stream(o) ==
    /\ Usable(o)
    /\ \E r \in operator_shl(Members(o), mem, heap) : Do(o, "print", 0, <<>>, r)
    /\ UNCHANGED life

\* One buffer, its cursor moved and its content edited, then read.
NextRead ==
    \/ PushBack("a")
    \/ PopBack("a")
    \/ Clear("a")
    \/ Advance("a")
    \/ Retreat("a")
    \/ At("a")
    \/ Subscript("a")
    \/ Front("a")
    \/ Back("a")
    \/ ForEach("a")
    \/ ReverseEach("a")
    \/ ConstReverseEach("a")
    \/ Line("a")
    \/ Find("a")
    \/ LineCount("a")
    \/ Stream("a")

SpecRead == Init /\ [][NextRead]_vars

\* --------------------------------------------------------------- equality
\* operator==(other) comparing the sizes only
operator_eq_sizes(g, other, m, h) ==
    {[g |-> g, og |-> other, mem |-> m, heap |-> h, outcome |-> "ok",
      ret |-> <<size(g) = size(other)>>]}

\* operator==(other): false when the sizes differ, otherwise the two
\* to_str() are compared.  The function is noexcept, and so is to_str(): a
\* to_str() that cannot be taken ends the process.
operator_eq(g, other, m, h) ==
    LET result(res, r) == [g |-> g, og |-> other, mem |-> m, heap |-> h,
                           outcome |-> res, ret |-> r]
    IN IF size(g) # size(other) THEN {result("ok", <<FALSE>>)}
       ELSE IF ~(to_str(g, m).ok /\ to_str(other, m).ok) THEN {result("abort", <<>>)}
       ELSE {result("ok", <<to_str(g, m).str = to_str(other, m).str>>)}

\* Gapbuffer o(...);  a second buffer made by a constructor of its own
Construct(o) ==
    /\ Running /\ life[o] = "unborn"
    /\ \/ \E r \in Gapbuffer(mem, heap) : Do(o, "Gapbuffer", 0, <<>>, r)
       \/ \E length \in 0..MaxInitCap : \E r \in Gapbuffer_length(mem, heap, length) :
             Do(o, "Gapbuffer_length", length, <<>>, r)
       \/ \E str \in Texts : \E r \in Gapbuffer_string_view(mem, heap, str) :
             Do(o, "Gapbuffer_string_view", 0, str, r)
       \/ \E lst \in Texts : \E r \in Gapbuffer_initializer_list(mem, heap, lst) :
             Do(o, "Gapbuffer_initializer_list", 0, lst, r)
    /\ life' = [life EXCEPT ![o] = "live"]

\* o == src
Equals(o, src) ==
    /\ Running /\ life[o] = "live" /\ life[src] = "live"
    /\ \E r \in operator_eq(Members(o), Members(src), mem, heap) : Do2(o, src, "equals", r)
    /\ UNCHANGED life

\* Two buffers constructed apart, the second edited, then compared.
NextPair ==
    \/ Construct("b")
    \/ PushBack("b")
    \/ PopBack("b")
    \/ Advance("b")
    \/ Retreat("b")
    \/ Equals("a", "b")
    \/ Equals("b", "a")

SpecPair == Init /\ [][NextPair]_vars

\* ==================================================================== claims
\* the object the last operation was called on, now and before the call
Cur == Members(last.obj)

CurStr == to_str(Cur, mem)

Before == last.pre[last.obj]

\* C1: in every state reachable by the public operations the four positions
\* are ordered, bufferStart <= gapStart <= gapEnd <= bufferEnd: the left, gap
\* and right lengths are never negative.
C1_PositionsOrdered ==
    \A o \in Obj : life[o] = "live" =>
        /\ bufferStart[o] <= gapStart[o]
        /\ gapStart[o] <= gapEnd[o]
        /\ gapEnd[o] <= bufferEnd[o]

\* C2: advance() never changes to_str(); with a non-empty right segment the
\* element after the gap becomes the element before it (left +1, right -1),
\* with an empty right segment the content is untouched.
C2_AdvanceKeepsSequence ==
    (last.op = "advance" /\ Before.wf) =>
        /\ last.outcome = "ok"
        /\ CurStr = Before.str
        /\ right_len(Before.g) > 0 =>
              /\ left_len(Cur) = left_len(Before.g) + 1
              /\ right_len(Cur) = right_len(Before.g) - 1
              /\ mem[Cur.gapStart - 1] = Before.str.str[left_len(Before.g) + 1]

\* C3: retreat() on a buffer whose left segment has length >= 1 (length 1
\* included) leaves to_str() unchanged, makes the left segment one shorter
\* and the right one longer, and the element that was before the gap is the
\* element after it.
C3_RetreatKeepsSequence ==
    (last.op = "retreat" /\ Before.wf /\ left_len(Before.g) >= 1) =>
        /\ last.outcome = "ok"
        /\ CurStr = Before.str
        /\ left_len(Cur) = left_len(Before.g) - 1
        /\ right_len(Cur) = right_len(Before.g) + 1
        /\ mem[Cur.gapEnd] = Before.str.str[left_len(Before.g)]

\* C4: reserve(new_cap) with new_cap > capacity() leaves to_str() and the
\* lengths of both segments unchanged and yields capacity() >= new_cap.
C4_ReserveKeepsContent ==
    (last.op = "reserve" /\ Before.wf /\ last.argc > capacity(Before.g)) =>
        /\ last.outcome = "ok"
        /\ CurStr = Before.str
        /\ left_len(Cur) = left_len(Before.g)
        /\ right_len(Cur) = right_len(Before.g)
        /\ capacity(Cur) >= last.argc

\* C5: push_back(x) followed at once by pop_back() returns x and restores
\* to_str() and size(), also when the push_back used the last gap slot and
\* the buffer grew.
C5_PushPopRoundTrip ==
    (last.op = "pop_back" /\ prev.op = "push_back" /\ prev.obj = last.obj /\ prev.wf) =>
        /\ prev.outcome = "ok"
        /\ last.outcome = "ok"
        /\ last.ret = <<prev.argc>>
        /\ CurStr = prev.str
        /\ size(Cur) = size(prev.g)

\* C6: advance() then retreat() leaves to_str() unchanged when the right
\* segment was non-empty before the advance, and retreat() then advance()
\* leaves it unchanged when the left segment was non-empty before the
\* retreat.
C6_AdvanceRetreatRoundTrip ==
    (/\ prev.obj = last.obj /\ prev.wf
     /\ \/ last.op = "retreat" /\ prev.op = "advance" /\ right_len(prev.g) > 0
        \/ last.op = "advance" /\ prev.op = "retreat" /\ left_len(prev.g) > 0) =>
        /\ prev.outcome = "ok"
        /\ last.outcome = "ok"
        /\ CurStr = prev.str

\* C7: insert(text), and push_back as its one-element case, inserts at the
\* cursor: with left segment L and right segment R before the call, to_str()
\* is L ++ text ++ R afterwards and the left segment is L ++ text, for every
\* text length, also beyond the gap.
C7_InsertAtCursor ==
    (last.op \in {"insert", "push_back"} /\ Before.wf) =>
        LET text == IF last.op = "insert" THEN last.args ELSE <<last.argc>>
            L == SubSeq(Before.str.str, 1, left_len(Before.g))
            R == SubSeq(Before.str.str, left_len(Before.g) + 1, Len(Before.str.str))
        IN /\ last.outcome = "ok"
           /\ CurStr = [ok |-> TRUE, str |-> L \o text \o R]
           /\ left_len(Cur) = Len(L) + Len(text)
           /\ right_len(Cur) = Len(R)

\* C8: erase(count) with count > left length fails and leaves to_str() and
\* size() as they were: nothing is removed.
C8_EraseTooManyKeepsContent ==
    (last.op = "erase" /\ Before.wf /\ last.argc > left_len(Before.g)) =>
        /\ last.outcome = "out_of_range"
        /\ CurStr = Before.str
        /\ size(Cur) = size(Before.g)

\* C9: a copy (constructed or assigned) has the source's layout in an
\* allocation of its own: same capacity(), same gapStart and gapEnd offsets,
\* hence same size() and to_str(); editing one afterwards does not change
\* the other.
C9_CopyIsLayoutIdentical ==
    /\ (/\ last.op \in {"copy_construct", "copy_assign"}
        /\ last.obj # last.src /\ last.pre[last.src].wf) =>
          LET from == last.pre[last.src]
          IN /\ last.outcome = "ok"
             /\ Members(last.src) = from.g
             /\ Cur.bufferStart # from.g.bufferStart
             /\ capacity(Cur) = capacity(from.g)
             /\ left_len(Cur) = left_len(from.g)
             /\ Cur.gapEnd - Cur.bufferStart = from.g.gapEnd - from.g.bufferStart
             /\ size(Cur) = size(from.g)
             /\ CurStr = from.str
    /\ (last.op \in {"push_back", "pop_back", "retreat"}) =>
          \A o \in Obj \ {last.obj} :
              (life[o] = "live" /\ last.pre[o].wf /\ Before.wf) =>
                  to_str(Members(o), mem) = last.pre[o].str

\* C10: after a move (constructed or assigned) the target owns the source's
\* allocation with the source's content, the source holds no allocation, the
\* allocation has not been released, and no two instances refer to the same
\* allocation.
C10_MoveTransfersOwnership ==
    /\ (/\ last.op \in {"move_construct", "move_assign"}
        /\ last.obj # last.src /\ last.pre[last.src].wf) =>
          LET from == last.pre[last.src]
          IN /\ last.outcome = "ok"
             /\ Cur = from.g
             /\ CurStr = from.str
             /\ Members(last.src) = NullMembers
             /\ \E b \in Live(heap) : b.base = Cur.bufferStart
    /\ \A o1 \in Obj, o2 \in Obj :
          (o1 # o2 /\ life[o1] = "live" /\ life[o2] = "live"
                   /\ bufferStart[o1] = bufferStart[o2]) => bufferStart[o1] = nullptr

\* the slots of the first and of the last element of the logical sequence
FirstSlot(g) == IF left_len(g) > 0 THEN g.bufferStart ELSE g.gapEnd

LastSlot(g) == IF right_len(g) > 0 THEN g.bufferEnd - 1 ELSE g.gapStart - 1

\* C11: forward iteration from begin() to end() over a well-formed buffer
\* ends normally having visited exactly the logical sequence in order;
\* begin() denotes the first logical element, no visited position lies in
\* [gapStart, gapEnd), and incrementing from gapStart-1 lands on gapEnd.
C11_ForwardIterationIsLogical ==
    (last.op = "for_each" /\ Before.wf) =>
        LET g == Before.g
        IN /\ last.outcome = "ok"
           /\ last.ret = Before.str.str
           /\ (size(g) > 0 => begin(g) = FirstSlot(g))
           /\ (begin(g) # end(g) => ~(g.gapStart <= begin(g) /\ begin(g) < g.gapEnd))
           /\ (left_len(g) > 0 /\ right_len(g) > 0 =>
                  \A r \in operator_inc(g, mem, heap, g.gapStart - 1) :
                      r.outcome = "ok" /\ r.ret = <<g.gapEnd>>)

\* C12: over a well-formed buffer rbegin() and crbegin() denote the last
\* logical element, rend() and crend() the position before the first, and
\* the traversal from the one to the other yields to_str() reversed.
C12_ReverseIterationIsReversed ==
    (last.op \in {"reverse_each", "const_reverse_each"} /\ Before.wf) =>
        LET g == Before.g
        IN /\ last.outcome = "ok"
           /\ last.ret = Reverse(Before.str.str)
           /\ (size(g) > 0 => last.args[1] - 1 = LastSlot(g) /\ last.args[2] = FirstSlot(g))

\* the line of s that holds position pos (0-based): from after the nearest
\* '\n' before pos, or the start, through the nearest '\n' at or after pos,
\* or the end
LineAt(s, pos) ==
    LET before == {i \in 1..pos : s[i] = 10}
        after == {i \in (pos + 1)..Len(s) : s[i] = 10}
        from == IF before = {} THEN 1 ELSE 1 + CHOOSE i \in before : \A j \in before : j <= i
        to == IF after = {} THEN Len(s) ELSE CHOOSE i \in after : \A j \in after : i <= j
    IN SubSeq(s, from, to)

\* C13: line(pos) on a well-formed buffer fails only if pos > size() or the
\* buffer holds no elements; otherwise, for every gap position, it returns
\* the line of to_str() that holds pos, its '\n' included.
C13_LineReturnsLineAtPos ==
    (last.op = "line" /\ Before.wf) =>
        LET str == Before.str.str
        IN IF last.argc > Len(str) \/ Len(str) = 0
           THEN last.outcome \in {"out_of_range", "runtime_error"}
           ELSE last.outcome = "ok" /\ last.ret = LineAt(str, last.argc)

\* C14: find(value, count) on a well-formed buffer returns the 0-based
\* logical index of the count-th occurrence of value, -1 if there are fewer
\* than count, and 0 when count is 0.
C14_FindReturnsLogicalIndex ==
    (last.op = "find" /\ Before.wf) =>
        LET str == Before.str.str
            occ == {i \in 1..Len(str) : str[i] = last.args[1]}
        IN /\ last.outcome = "ok"
           /\ last.ret = <<IF last.argc = 0 THEN 0
                           ELSE IF Cardinality(occ) < last.argc THEN -1
                           ELSE (CHOOSE i \in occ :
                                    Cardinality({j \in occ : j <= i}) = last.argc) - 1>>

\* C15: line_count() on a well-formed buffer is 0 when there are no
\* elements; otherwise the number of '\n' in to_str(), plus one if the last
\* logical element is not '\n', whatever the gap position and the gap holds.
C15_LineCountCountsLogicalLines ==
    (last.op = "line_count" /\ Before.wf) =>
        LET str == Before.str.str
            newlines == Cardinality({i \in 1..Len(str) : str[i] = 10})
        IN /\ last.outcome = "ok"
           /\ last.ret = <<IF Len(str) = 0 THEN 0
                           ELSE IF str[Len(str)] # 10 THEN newlines + 1 ELSE newlines>>

\* C16: pop_back() on a buffer whose left segment [bufferStart, gapStart)
\* holds nothing fails and leaves the four positions as they were;
\* otherwise it returns the element just before the cursor, takes exactly
\* that slot off the left segment, and leaves bufferStart, the right
\* segment and so capacity() as they were.
C16_PopBackTakesLastOfLeft ==
    (last.op = "pop_back") =>
        LET g == Before.g
        IN IF left_len(g) <= 0
           THEN last.outcome = "out_of_range" /\ Cur = g
           ELSE /\ last.outcome = "ok"
                /\ last.ret = <<mem[g.gapStart - 1]>>
                /\ Cur = [g EXCEPT !.gapStart = g.gapStart - 1]
                /\ capacity(Cur) = capacity(g)

\* C17: erase(count) with count at most the left length returns the count
\* elements before the cursor in pop order (the last one first), moves
\* only gapStart, by count, and - wherever to_str() can be taken - leaves
\* to_str() without exactly those elements, the right segment unchanged.
C17_EraseReturnsPopOrder ==
    (last.op = "erase" /\ last.argc <= left_len(Before.g)) =>
        LET g == Before.g
            str == Before.str.str
            left == left_len(g)
            count == last.argc
        IN /\ last.outcome = "ok"
           /\ last.ret = [i \in 1..count |-> mem[g.gapStart - i]]
           /\ Cur = [g EXCEPT !.gapStart = g.gapStart - count]
           /\ Before.str.ok =>
                 /\ last.ret = [i \in 1..count |-> str[left + 1 - i]]
                 /\ CurStr.ok
                 /\ CurStr.str = SubSeq(str, 1, left - count) \o SubSeq(str, left + 1, Len(str))

\* an erase(2) that returned two different elements
C17_EraseWitness ==
    /\ last.op = "erase" /\ Before.wf /\ last.outcome = "ok"
    /\ last.argc = 2 /\ Len(last.ret) = 2 /\ last.ret[1] # last.ret[2]

\* C18: on a well-formed buffer, for every gap position, at(i) and
\* operator[](i) with i < size() are to_str()[i]; at(i) with i >= size()
\* fails with out_of_range and changes nothing.
C18_AtReadsLogicalIndex ==
    (last.op \in {"at", "subscript"} /\ Before.wf) =>
        LET str == Before.str.str
            i == last.argc
        IN IF i < size(Before.g)
           THEN last.outcome = "ok" /\ last.ret = <<str[i + 1]>>
           ELSE last.op = "at" =>
                    /\ last.outcome = "out_of_range"
                    /\ Cur = Before.g /\ CurStr = Before.str

\* an at(i) that read an element of the right segment across a gap that
\* lies inside the content
C18_AtWitness ==
    /\ last.op = "at" /\ Before.wf /\ last.outcome = "ok"
    /\ left_len(Before.g) > 0 /\ gap_size(Before.g) > 0
    /\ last.argc >= left_len(Before.g)

\* C19: front() and back() fail exactly when size() is 0; otherwise
\* front() is to_str()[0] and back() is to_str()[size()-1], the cursor at the
\* very start or the very end included.
C19_FrontBackAreLogicalEnds ==
    (last.op \in {"front", "back"}) =>
        LET str == Before.str.str
        IN IF size(Before.g) = 0 THEN last.outcome = "out_of_range"
           ELSE /\ last.outcome = "ok"
                /\ (Before.str.ok /\ str # <<>> =>
                       last.ret = <<IF last.op = "front" THEN str[1] ELSE str[Len(str)]>>)

\* C20: in every reachable state, for every live buffer,
\* size() + gap_size() == capacity() (the sum taken in size_type, as the
\* three functions return it).
C20_SizePlusGapIsCapacity ==
    \A o \in Obj :
        life[o] = "live" =>
            size_type(size(Members(o)) + gap_size(Members(o))) = capacity(Members(o))

\* a buffer that holds elements and has a gap, after an operation
C20_SizeWitness ==
    /\ last.op = "push_back" /\ last.outcome = "ok"
    /\ size(Cur) > 0 /\ gap_size(Cur) > 0
    /\ size(Cur) + gap_size(Cur) = capacity(Cur)

\* C21: wherever the to_str() of both buffers can be taken, a == b returns,
\* and returns true exactly when the two to_str() are equal, whatever the
\* capacities, the gap positions and the histories of the two.
C21_EqualIffSameText ==
    (last.op = "equals" /\ Before.str.ok /\ last.pre[last.src].str.ok) =>
        /\ last.outcome = "ok"
        /\ last.ret = <<Before.str.str = last.pre[last.src].str.str>>

\* two buffers that hold the same non-empty text around gaps at different
\* offsets compared equal
C21_EqualWitness ==
    /\ last.op = "equals" /\ last.outcome = "ok" /\ last.ret = <<TRUE>>
    /\ Before.wf /\ last.pre[last.src].wf
    /\ Before.str.str # <<>>
    /\ left_len(Before.g) # left_len(last.pre[last.src].g)

\* C22: every clear() returns with size() == 0 and the gap spanning the
\* whole block (gapStart == bufferStart, gapEnd == bufferEnd); bufferStart,
\* bufferEnd, and so capacity(), and the set of allocated blocks are as they
\* were before the call.
C22_ClearEmptiesAndKeepsBlock ==
    [][last'.op = "clear" =>
          LET g == Members("a")
              after == [bufferStart |-> bufferStart'["a"], gapStart |-> gapStart'["a"],
                        gapEnd |-> gapEnd'["a"], bufferEnd |-> bufferEnd'["a"]]
          IN /\ last'.outcome = "ok"
             /\ size(after) = 0
             /\ after.gapStart = after.bufferStart /\ after.gapEnd = after.bufferEnd
             /\ after.bufferStart = g.bufferStart /\ after.bufferEnd = g.bufferEnd
             /\ capacity(after) = capacity(g)
             /\ heap' = heap]_vars

\* a clear() of a well-formed buffer that held elements on both sides of
\* the gap
C22_ClearWitness ==
    /\ last.op = "clear" /\ Before.wf
    /\ left_len(Before.g) > 0 /\ right_len(Before.g) > 0

\* C23: a buffer just constructed from a string of length n has size() == n,
\* to_str() equal to the string, capacity() == n + 8, left length n, a gap of
\* 8 slots right after the content and right length 0, all inside its block.
C23_StringConstructorLayout ==
    last.op = "Gapbuffer_string_view" =>
        LET n == Len(last.args)
        IN /\ last.outcome = "ok"
           /\ size(Cur) = n
           /\ CurStr.ok /\ CurStr.str = last.args
           /\ capacity(Cur) = n + 8
           /\ left_len(Cur) = n /\ gap_size(Cur) = 8 /\ right_len(Cur) = 0
           /\ WellFormed(Cur, heap)

\* a second buffer just constructed from a string of two different chars
C23_StringConstructorWitness ==
    /\ last.op = "Gapbuffer_string_view" /\ last.obj = "b"
    /\ Len(last.args) >= 2 /\ last.args[1] # last.args[2]

\* C24: a buffer just constructed with an explicit capacity n, or by the
\* default constructor with n = 32, has capacity() == n, size() == 0,
\* gap_size() == n and empty() true.
C24_CapacityConstructorLayout ==
    last.op \in {"Gapbuffer", "Gapbuffer_length"} =>
        LET n == IF last.op = "Gapbuffer" THEN 32 ELSE last.argc
        IN /\ last.outcome = "ok"
           /\ capacity(Cur) = n
           /\ size(Cur) = 0
           /\ gap_size(Cur) = n
           /\ empty(Cur)

\* a second buffer just constructed with an explicit non-zero capacity
C24_CapacityConstructorWitness ==
    /\ last.op = "Gapbuffer_length" /\ last.obj = "b"
    /\ last.argc > 0 /\ capacity(Cur) = last.argc

\* C25: the printable form of a well-formed buffer is '[', the left
\* segment, exactly gap_size() blanks, every element of the right segment,
\* then ']'.
C25_PrintShowsBothSegments ==
    (last.op = "print" /\ Before.wf) =>
        LET g == Before.g
        IN /\ last.outcome = "ok"
           /\ last.ret = <<91>> \o ReadN(mem, g.bufferStart, left_len(g))
                               \o [i \in 1..gap_size(g) |-> 32]
                               \o ReadN(mem, g.gapEnd, right_len(g)) \o <<93>>

\* C26: a push_back on a well-formed buffer with capacity() > 0 that fills
\* the last free slot of the gap grows the block before it returns:
\* capacity() is exactly twice what it was and gap_size() > 0.  A push_back
\* that leaves the gap non-empty leaves capacity() as it was.  (A growth
\* that the allocator refuses is not covered.)
C26_PushBackGrowsWhenGapExhausted ==
    (/\ last.op = "push_back" /\ Before.wf /\ capacity(Before.g) > 0
     /\ last.outcome # "bad_alloc") =>
        /\ last.outcome = "ok"
        /\ gap_size(Cur) > 0
        /\ capacity(Cur) = IF Before.g.gapStart + 1 = Before.g.gapEnd
                           THEN 2 * capacity(Before.g)
                           ELSE capacity(Before.g)

\* C27: push_back on a buffer constructed with capacity 0 grows the block
\* and stores the element: afterwards size() = 1, capacity() > 0 and
\* gapStart <= gapEnd.
C27_PushBackOnZeroCapacity ==
    (/\ last.op = "push_back" /\ Before.wf /\ capacity(Before.g) = 0
     /\ last.outcome # "bad_alloc") =>
        /\ last.outcome = "ok"
        /\ size(Cur) = 1
        /\ capacity(Cur) > 0
        /\ Cur.gapStart <= Cur.gapEnd

\* the live instances whose bufferStart is the block at base
Owners(base) == {o \in Obj : life[o] = "live" /\ bufferStart[o] = base}

\* C28: over construction, copy and move construction, copy and move
\* assignment, growth and destruction, no block is deallocated twice, every
\* block that is still allocated belongs to exactly one live instance, and
\* once no instance is alive every block has been deallocated.
C28_EveryBlockFreedExactlyOnce ==
    /\ \A b \in heap : b.frees <= 1
    /\ \A b \in Live(heap) : Cardinality(Owners(b.base)) = 1
    /\ (\A o \in Obj : life[o] # "live") => Live(heap) = {}

\* the three parts of C28, one by one
C28_NeverFreedTwice == \A b \in heap : b.frees <= 1

C28_NoBlockWithoutOwner == \A b \in Live(heap) : Owners(b.base) # {}

C28_NoLeakAtExit == (\A o \in Obj : life[o] # "live") => Live(heap) = {}

\* C29: in every state where the buffer satisfies the layout invariant,
\* empty() is true exactly when size() = 0; a buffer whose left segment is
\* empty and whose right segment is not reports empty() = FALSE.
C29_EmptyIffSizeZero ==
    (life["a"] = "live" /\ WellFormed(Members("a"), heap)) =>
        (empty(Members("a")) <=> size(Members("a")) = 0)

\* the slots of the live block that starts at g.bufferStart (none if no live
\* block starts there)
OwnBlock(g, h) ==
    UNION {b.base..(b.base + b.len - 1) : b \in {x \in Live(h) : x.base = g.bufferStart}}

\* C30: capacity() never exceeds the number of slots of the block allocated
\* to the buffer, whichever constructor or operation produced it, and the
\* slot a push_back on a well-formed buffer writes lies inside the block the
\* buffer held at the call (push_back deallocates nothing, so that block is
\* still in the heap afterwards).
C30_AccessesStayInsideBlock ==
    /\ life["a"] = "live" =>
          capacity(Members("a")) <= Cardinality(OwnBlock(Members("a"), heap))
    /\ (last.op = "push_back" /\ Before.wf) =>
          Before.g.gapStart \in OwnBlock(Before.g, heap)

\* the two parts of C30, one by one
C30_CapacityWithinBlock ==
    life["a"] = "live" =>
        capacity(Members("a")) <= Cardinality(OwnBlock(Members("a"), heap))

C30_PushBackWritesInsideBlock ==
    (last.op = "push_back" /\ Before.wf) =>
        Before.g.gapStart \in OwnBlock(Before.g, heap)
====
